---- MODULE Spec2Model ----
(***************************************************************************)
(* GoFirestoreApp (main.go): an HTTP front-end over the Firestore          *)
(* collection "users".  main initialises the shared client, registers     *)
(* four handlers on the default ServeMux and listens; net/http runs every *)
(* accepted connection in a goroutine of its own, which reads the request *)
(* and runs the handler the mux selects.                                  *)
(*                                                                         *)
(* The collection is the state of the external store.  Its operations     *)
(* (Add = NewDoc + Create, Get, Next) are atomic at the store and either  *)
(* succeed or return an error.  A handler is not atomic: its goroutine    *)
(* waits for every store call, and the other goroutines run meanwhile.    *)
(***************************************************************************)
EXTENDS Integers, Sequences, FiniteSets, TLC

(* ------------------------------ bounds -------------------------------- *)
\* number of document ids the store's id generator can draw from
MaxDocs == 2
\* number of connections net/http serves at the same time
MaxConns == 2

\* document names in the store's scan order (ascending by name)
AllNames == <<"d1", "d2", "d3", "d4">>
DocIds == {AllNames[i] : i \in 1..MaxDocs}
\* an id the generator never assigns
NeverId == "doesNotExist"
Conns == 1..MaxConns

(* --------------------------- HTTP requests ---------------------------- *)
Methods == {"GET", "POST", "DELETE"}

\* a member of a JSON object: absent, null, a number, or a string
Absent == [kind |-> "absent", val |-> ""]
Null == [kind |-> "null", val |-> ""]
Num == [kind |-> "num", val |-> ""]
Str(s) == [kind |-> "str", val |-> s]

\* A request body is its first JSON value followed by the rest of the bytes.
\*   form "object"  {"name": .., "email": ..}
\*   form "null"    null
\*   form "scalar"  a complete JSON value that is no object (5, "x", [])
\*   form "broken"  bytes that are no prefix-complete JSON value ({"name":)
\*   form "empty"   no bytes at all
\* rest is "none" or "garbage" (non-JSON bytes after the first value).
NoBody == [form |-> "empty", name |-> Absent, email |-> Absent, rest |-> "none"]
Object(n, e, r) == [form |-> "object", name |-> n, email |-> e, rest |-> r]
ObjectBodies ==
    {Object(Str("a"), Str("b"), "none"),      \* {"name":"a","email":"b"}
     Object(Str("b"), Str("b"), "none"),      \* {"name":"b","email":"b"}
     Object(Absent, Str("b"), "none"),        \* {"email":"b"}
     Object(Str("a"), Null, "none"),          \* {"name":"a","email":null}
     Object(Num, Str("b"), "none"),           \* {"name":5,"email":"b"}
     Object(Str("a"), Str("b"), "garbage")}   \* {"name":"a","email":"b"}xyz
OtherBodies ==
    {[form |-> f, name |-> Absent, email |-> Absent, rest |-> "none"] :
        f \in {"null", "scalar", "broken", "empty"}}
Bodies == ObjectBodies \cup OtherBodies
BrokenBody == [form |-> "broken", name |-> Absent, email |-> Absent, rest |-> "none"]

\* the URL query: whether an id parameter is present, and its first value
NoQuery == [has |-> FALSE, id |-> ""]
Id(i) == [has |-> TRUE, id |-> i]
Queries == {NoQuery} \cup {Id(i) : i \in DocIds \cup {NeverId, ""}}

Request(p, m, b, q) == [path |-> p, method |-> m, body |-> b, query |-> q]
AddRequests ==
    {Request("/addUser", "POST", b, NoQuery) : b \in Bodies}
    \cup {Request("/addUser", m, b, NoQuery) :
            m \in {"GET", "DELETE"}, b \in {Object(Str("a"), Str("b"), "none"), BrokenBody}}
GetRequests ==
    {Request("/getUser", "GET", NoBody, q) : q \in Queries}
    \cup {Request("/getUser", m, NoBody, q) :
            m \in {"POST", "DELETE"}, q \in {NoQuery, Id(AllNames[1])}}
ListRequests == {Request("/listUsers", m, NoBody, NoQuery) : m \in Methods}
HomeRequests ==
    {Request("/", "GET", NoBody, NoQuery), Request("/", "POST", NoBody, NoQuery),
     Request("/other", "GET", NoBody, NoQuery)}
Requests == AddRequests \cup GetRequests \cup ListRequests \cup HomeRequests

\* the requests of the concurrent workload: adds and scans
ConcRequests ==
    {Request("/addUser", "POST", Object(Str("a"), Str("b"), "none"), NoQuery),
     Request("/listUsers", "GET", NoBody, NoQuery)}

(* ------------------------------ User ---------------------------------- *)
\* type User struct { Name string `json:"name"`; Email string `json:"email"` }
User(n, e) == [name |-> n, email |-> e]
ZeroUser == User("", "")

\* json.NewDecoder(r.Body).Decode(&user): decodes the FIRST JSON value of the
\* stream into the struct.  Bytes after that value are not read.  A missing
\* or null member leaves the field's zero value; a member of the wrong type,
\* or a value that is no object, is an UnmarshalTypeError.
DecodeField(f) == IF f.kind = "str" THEN f.val ELSE ""
Decode(body) ==
    CASE body.form = "empty" -> [err |-> TRUE, user |-> ZeroUser]
      [] body.form = "broken" -> [err |-> TRUE, user |-> ZeroUser]
      [] body.form = "scalar" -> [err |-> TRUE, user |-> ZeroUser]
      [] body.form = "null" -> [err |-> FALSE, user |-> ZeroUser]
      [] body.form = "object" ->
            [err |-> body.name.kind = "num" \/ body.email.kind = "num",
             user |-> User(DecodeField(body.name), DecodeField(body.email))]

\* r.URL.Query().Get("id"): the first value of the parameter, "" when absent
QueryGet(q) == IF q.has THEN q.id ELSE ""

(* ------------------------------ store --------------------------------- *)
\* The collection "users": a function from the ids of the stored documents
\* to their fields.  The firestore encoder names the fields after the Go
\* struct fields (the struct carries json tags only).
ToDoc(u) == [Name |-> u.name, Email |-> u.email]
\* doc.DataTo(&user)
\* (faulty variant: the fields are looked up under the json tag names, which
\* the stored document does not have)
DataTo_jsonTags(doc) == ZeroUser
DataTo(doc) == User(doc.Name, doc.Email)

EmptyStore == [i \in {} |-> ToDoc(ZeroUser)]
Put(st, id, doc) == [i \in DOMAIN st \cup {id} |-> IF i = id THEN doc ELSE st[i]]

\* client.Collection("users").Add(ctx, user): NewDoc draws a random id, Create
\* writes the document unless one exists under that id.  ok = FALSE is any
\* failure of the call; nothing is written then.
\* (faulty variant: the id is returned and the document is not written)
CollectionAdd_noPersist(st, user, newId, ok) ==
    IF ~ok \/ newId \in DOMAIN st
    THEN [err |-> TRUE, id |-> "", store |-> st]
    ELSE [err |-> FALSE, id |-> newId, store |-> st]
\* (faulty variant: Set in place of Create, an existing document is replaced)
CollectionAdd_overwrite(st, user, newId, ok) ==
    IF ~ok
    THEN [err |-> TRUE, id |-> "", store |-> st]
    ELSE [err |-> FALSE, id |-> newId, store |-> Put(st, newId, ToDoc(user))]
CollectionAdd(st, user, newId, ok) ==
    IF ~ok \/ newId \in DOMAIN st
    THEN [err |-> TRUE, id |-> "", store |-> st]
    ELSE [err |-> FALSE, id |-> newId, store |-> Put(st, newId, ToDoc(user))]

\* client.Collection("users").Doc(id).Get(ctx): NotFound when no document is
\* stored under id; ok = FALSE is any other failure of the call.
DocGet(st, id, ok) ==
    IF ok /\ id \in DOMAIN st
    THEN [err |-> FALSE, doc |-> st[id]]
    ELSE [err |-> TRUE, doc |-> ToDoc(ZeroUser)]

\* client.Collection("users").Documents(ctx): the documents in name order
Documents(st) == SelectSeq(SubSeq(AllNames, 1, MaxDocs), LAMBDA n : n \in DOMAIN st)
\* what the query yields: the documents as they are when the first Next opens
\* the stream
Snapshot(st) == [i \in 1..Len(Documents(st)) |->
                    [id |-> Documents(st)[i], doc |-> st[Documents(st)[i]]]]

\* what a store call returned to the handler: op "Add", "Get" or "Next";
\* err: the call returned an error; done: the error is iterator.Done
Ret(op, err, done, id, doc) ==
    [op |-> op, err |-> err, done |-> done, id |-> id, doc |-> doc]
NoDoc == ToDoc(ZeroUser)

(* ----------------------------- responses ------------------------------ *)
\* What a handler wrote to the ResponseWriter, with the store calls it made
\* (calls) and whether the last of them failed (storeErr; iterator.Done is
\* no failure).
\* kind: "text" (http.Error), "object" / "array" (json.Encoder), "html".
Response(status, ctype, kind, text, id, user, list, calls, storeErr) ==
    [status |-> status, ctype |-> ctype, kind |-> kind, text |-> text, id |-> id,
     user |-> user, list |-> list, calls |-> calls, storeErr |-> storeErr]
NoResponse == Response(0, "", "none", "", "", ZeroUser, <<>>, <<>>, FALSE)

\* http.Error(w, msg, code)
HttpError(msg, code, calls, storeErr) ==
    Response(code, "text/plain; charset=utf-8", "text", msg, "", ZeroUser, <<>>,
             calls, storeErr)

\* w.Header().Set("Content-Type", "application/json"); json.NewEncoder(w).Encode(..)
\* The first write sends status 200.
JsonObject(msg, id, user, calls) ==
    Response(200, "application/json", "object", msg, id, user, <<>>, calls, FALSE)
JsonArray(list, calls, storeErr) ==
    Response(200, "application/json", "array", "", "", ZeroUser, list, calls, storeErr)

\* What a handler does next, given the results of the store calls it has
\* made so far: it writes its response and returns, or it makes the next
\* store call and waits for it.
Reply(resp) == [kind |-> "reply", resp |-> resp, op |-> "", id |-> "", user |-> ZeroUser]
Call(op, id, user) == [kind |-> "call", resp |-> NoResponse, op |-> op, id |-> id, user |-> user]

Ops(rets) == [i \in 1..Len(rets) |-> rets[i].op]

(* ------------------------------ handlers ------------------------------ *)
\* addUserHandler (POST /addUser).  rets: << >> before the Add call of line
\* 50, << its result >> after it.
addUserHandler(req, rets) ==
    IF req.method # "POST"
    THEN Reply(HttpError("Invalid request method", 405, <<>>, FALSE))
    ELSE LET d == Decode(req.body) IN
         IF d.err
         THEN Reply(HttpError("Invalid request body", 400, <<>>, FALSE))
         ELSE IF rets = <<>>
         THEN Call("Add", "", d.user)
         ELSE IF rets[1].err
         THEN Reply(HttpError("Error adding user", 500, Ops(rets), TRUE))
         ELSE Reply(JsonObject("User added successfully", rets[1].id, d.user, Ops(rets)))

\* getUserHandler (GET /getUser?id=docID).  rets: << >> before the Get call
\* of line 79, << its result >> after it.
\* (faulty variant: the id is tested before the method)
getUserHandler_idFirst(req, rets) ==
    LET userID == QueryGet(req.query) IN
    IF userID = ""
    THEN Reply(HttpError("User ID required", 400, <<>>, FALSE))
    ELSE IF req.method # "GET"
    THEN Reply(HttpError("Invalid request method", 405, <<>>, FALSE))
    ELSE IF rets = <<>>
    THEN Call("Get", userID, ZeroUser)
    ELSE IF rets[1].err
    THEN Reply(HttpError("User not found", 404, Ops(rets), TRUE))
    ELSE Reply(JsonObject("", userID, DataTo(rets[1].doc), Ops(rets)))
\* (faulty variant: a lookup error other than NotFound is answered 500)
getUserHandler_serverError(req, rets) ==
    IF req.method # "GET"
    THEN Reply(HttpError("Invalid request method", 405, <<>>, FALSE))
    ELSE LET userID == QueryGet(req.query) IN
         IF userID = ""
         THEN Reply(HttpError("User ID required", 400, <<>>, FALSE))
         ELSE IF rets = <<>>
         THEN Call("Get", userID, ZeroUser)
         ELSE IF rets[1].err
         THEN Reply(HttpError("User not found", IF rets[1].done THEN 404 ELSE 500,
                              Ops(rets), TRUE))
         ELSE Reply(JsonObject("", userID, DataTo(rets[1].doc), Ops(rets)))
\* (faulty variant: the id is not tested)
getUserHandler_noIdCheck(req, rets) ==
    IF req.method # "GET"
    THEN Reply(HttpError("Invalid request method", 405, <<>>, FALSE))
    ELSE LET userID == QueryGet(req.query) IN
         IF rets = <<>>
         THEN Call("Get", userID, ZeroUser)
         ELSE IF rets[1].err
         THEN Reply(HttpError("User not found", 404, Ops(rets), TRUE))
         ELSE Reply(JsonObject("", userID, DataTo(rets[1].doc), Ops(rets)))
getUserHandler(req, rets) ==
    IF req.method # "GET"
    THEN Reply(HttpError("Invalid request method", 405, <<>>, FALSE))
    ELSE LET userID == QueryGet(req.query) IN
         IF userID = ""
         THEN Reply(HttpError("User ID required", 400, <<>>, FALSE))
         ELSE IF rets = <<>>
         THEN Call("Get", userID, ZeroUser)
         ELSE IF rets[1].err
         THEN Reply(HttpError("User not found", 404, Ops(rets), TRUE))
         ELSE Reply(JsonObject("", userID, DataTo(rets[1].doc), Ops(rets)))

\* The loop of listUsersHandler over the results of the iter.Next() calls
\* made so far: a document is appended; the first error ends the loop
\* (more = FALSE, users is the list to encode); with no result left the loop
\* calls Next again (more = TRUE).
RECURSIVE ListLoop(_, _, _)
ListLoop(rets, i, users) ==
    IF i > Len(rets)
    THEN [more |-> TRUE, users |-> users]
    ELSE IF rets[i].err
    THEN [more |-> FALSE, users |-> users]
    ELSE ListLoop(rets, i + 1,
                  Append(users, [id |-> rets[i].id, user |-> DataTo(rets[i].doc)]))

\* listUsersHandler (GET /listUsers).  rets: the results of the iter.Next()
\* calls made so far.
\* (faulty variant: an error other than iterator.Done is answered 500)
listUsersHandler_reportError(req, rets) ==
    IF req.method # "GET"
    THEN Reply(HttpError("Invalid request method", 405, <<>>, FALSE))
    ELSE LET l == ListLoop(rets, 1, <<>>) IN
         IF l.more
         THEN Call("Next", "", ZeroUser)
         ELSE IF ~rets[Len(rets)].done
         THEN Reply(HttpError("Error listing users", 500, <<"Documents">> \o Ops(rets), TRUE))
         ELSE Reply(JsonArray(l.users, <<"Documents">> \o Ops(rets), FALSE))
listUsersHandler(req, rets) ==
    IF req.method # "GET"
    THEN Reply(HttpError("Invalid request method", 405, <<>>, FALSE))
    ELSE LET l == ListLoop(rets, 1, <<>>) IN
         IF l.more
         THEN Call("Next", "", ZeroUser)
         ELSE Reply(JsonArray(l.users, <<"Documents">> \o Ops(rets),
                              ~rets[Len(rets)].done))

\* homeHandler: the static page, whatever the method
homeHandler(req, rets) ==
    Reply(Response(200, "text/html; charset=utf-8", "html", "Firestore API", "",
                   ZeroUser, <<>>, <<>>, FALSE))

\* The patterns main registers on the default ServeMux: three exact paths,
\* and "/" which matches every other path.
Route(path) ==
    IF path \in {"/addUser", "/getUser", "/listUsers"} THEN path ELSE "/"

\* the handler the mux selects, run on the request
Handler(req, rets) ==
    CASE Route(req.path) = "/addUser" -> addUserHandler(req, rets)
      [] Route(req.path) = "/getUser" -> getUserHandler(req, rets)
      [] Route(req.path) = "/listUsers" -> listUsersHandler(req, rets)
      [] OTHER -> homeHandler(req, rets)

(* ------------------------------- state -------------------------------- *)
VARIABLES
    phase,   \* position of main: "boot", "init" (client set), "serving", "dead"
    client,  \* the package-level client handle: "nil" or "ready"
    store,   \* the documents of the collection "users"
    h,       \* per connection, its goroutine:
             \*   pc   "idle", "running" (started, request not read),
             \*        "waiting" (in a store call), "ready" (the call returned)
             \*   req  the request it serves, or served last
             \*   rets the results of the store calls of this request so far
             \*   snap the documents its query yields (set by the first Next)
             \*   out  the response written to req (pc = "idle")
    added    \* history: id |-> user of every successful add response

vars == <<phase, client, store, h, added>>

NoRequest == [path |-> "", method |-> "", body |-> NoBody, query |-> NoQuery]
Fresh(pc) == [pc |-> pc, req |-> NoRequest, rets |-> <<>>, snap |-> <<>>, out |-> NoResponse]

Init ==
    /\ phase = "boot"
    /\ client = "nil"
    /\ store = EmptyStore
    /\ h = [c \in Conns |-> Fresh("idle")]
    /\ added = [i \in {} |-> ZeroUser]

(* ------------------------------ startup ------------------------------- *)
\* initFirestore, firestore.NewClient returned a client: client = firestoreClient.
\* Whether NewClient succeeds is decided by the credentials file and the
\* project id, which are configuration: both outcomes are steps of main.
InitFirestoreOK ==
    /\ phase = "boot"
    /\ client' = "ready"
    /\ phase' = "init"
    /\ UNCHANGED <<store, h, added>>

\* initFirestore, firestore.NewClient returned an error: log.Fatalf exits
\* (faulty variant: the error is logged and main goes on)
InitFirestoreFail_continue ==
    /\ phase = "boot"
    /\ phase' = "init"
    /\ UNCHANGED <<client, store, h, added>>
InitFirestoreFail ==
    /\ phase = "boot"
    /\ phase' = "dead"
    /\ UNCHANGED <<client, store, h, added>>

\* main: the handlers are registered and http.ListenAndServe listens
Listen ==
    /\ phase = "init"
    /\ phase' = "serving"
    /\ UNCHANGED <<client, store, h, added>>

\* main: http.ListenAndServe returned (it only returns with an error, when
\* it cannot listen or when accepting fails later): log.Fatal exits, and the
\* goroutines end where they are
ListenFail ==
    /\ phase \in {"init", "serving"}
    /\ phase' = "dead"
    /\ UNCHANGED <<client, store, h, added>>

(* ------------------------------ serving ------------------------------- *)
\* net/http accepts a connection (or reads on in a kept-alive one) and its
\* goroutine is to serve the next request
Accept(c) ==
    /\ phase = "serving"
    /\ h[c].pc = "idle"
    /\ h' = [h EXCEPT ![c] = Fresh("running")]
    /\ UNCHANGED <<phase, client, store, added>>

\* The goroutine of connection c runs the handler of req from where it is,
\* with the store results rets, up to its next store call or to its response
Run(c, req, rets) ==
    LET e == Handler(req, rets) IN
    /\ IF e.kind = "call"
       THEN /\ h' = [h EXCEPT ![c] = [@ EXCEPT !.pc = "waiting", !.req = req]]
            /\ UNCHANGED added
       ELSE /\ h' = [h EXCEPT ![c] = [pc |-> "idle", req |-> req, rets |-> <<>>,
                                      snap |-> <<>>, out |-> e.resp]]
            /\ IF Route(req.path) = "/addUser" /\ e.resp.status = 200
               THEN added' = Put(added, e.resp.id, e.resp.user)
               ELSE UNCHANGED added
    /\ UNCHANGED <<phase, client, store>>

\* the goroutine of connection c reads a request for /addUser (one of reqs)
\* and runs addUserHandler up to the Add call or to an error response
EnterAddUser(c, reqs) ==
    /\ phase = "serving"
    /\ h[c].pc = "running"
    /\ \E req \in {r \in reqs : Route(r.path) = "/addUser"} : Run(c, req, <<>>)

\* ... for /getUser, getUserHandler up to the Get call or an error response
EnterGetUser(c, reqs) ==
    /\ phase = "serving"
    /\ h[c].pc = "running"
    /\ \E req \in {r \in reqs : Route(r.path) = "/getUser"} : Run(c, req, <<>>)

\* ... for /listUsers, listUsersHandler up to the first Next or an error
\* response
EnterListUsers(c, reqs) ==
    /\ phase = "serving"
    /\ h[c].pc = "running"
    /\ \E req \in {r \in reqs : Route(r.path) = "/listUsers"} : Run(c, req, <<>>)

\* ... for any other path, homeHandler
ServeHome(c, reqs) ==
    /\ phase = "serving"
    /\ h[c].pc = "running"
    /\ \E req \in {r \in reqs : Route(r.path) = "/"} : Run(c, req, <<>>)

\* a store call of connection c returned ret
Returned(c, ret) ==
    h' = [h EXCEPT ![c] = [@ EXCEPT !.pc = "ready", !.rets = Append(@, ret)]]

\* the store runs the Add call connection c waits for (line 50)
StoreAdd(c) ==
    /\ h[c].pc = "waiting"
    /\ LET e == Handler(h[c].req, h[c].rets) IN
        /\ e.op = "Add"
        /\ \E newId \in DocIds, ok \in BOOLEAN :
            LET a == CollectionAdd(store, e.user, newId, ok) IN
            /\ store' = a.store
            /\ Returned(c, Ret("Add", a.err, FALSE, a.id, NoDoc))
    /\ UNCHANGED <<phase, client, added>>

\* the store runs the Get call connection c waits for (line 79); the error
\* of a missing document is NotFound (done), any other is a failure
StoreGet(c) ==
    /\ h[c].pc = "waiting"
    /\ LET e == Handler(h[c].req, h[c].rets) IN
        /\ e.op = "Get"
        /\ \E ok \in BOOLEAN :
            LET g == DocGet(store, e.id, ok) IN
            Returned(c, Ret("Get", g.err, g.err /\ ok, e.id, g.doc))
    /\ UNCHANGED <<phase, client, store, added>>

\* the store runs the iter.Next() call connection c waits for (line 107):
\* the first call opens the query; a call returns the next document of what
\* the query yields, iterator.Done after the last, or fails
StoreNext(c) ==
    /\ h[c].pc = "waiting"
    /\ LET e == Handler(h[c].req, h[c].rets)
           snap == IF h[c].rets = <<>> THEN Snapshot(store) ELSE h[c].snap
           pos == Len(h[c].rets) + 1 IN
        /\ e.op = "Next"
        /\ \E ok \in BOOLEAN :
            LET ret == IF ~ok THEN Ret("Next", TRUE, FALSE, "", NoDoc)
                       ELSE IF pos > Len(snap) THEN Ret("Next", TRUE, TRUE, "", NoDoc)
                       ELSE Ret("Next", FALSE, FALSE, snap[pos].id, snap[pos].doc) IN
            h' = [h EXCEPT ![c] = [@ EXCEPT !.pc = "ready", !.rets = Append(@, ret),
                                            !.snap = snap]]
    /\ UNCHANGED <<phase, client, store, added>>

\* the goroutine of connection c goes on after its store call returned, up
\* to the next store call or to the response
Resume(c) ==
    /\ phase = "serving"
    /\ h[c].pc = "ready"
    /\ Run(c, h[c].req, h[c].rets)

\* every request, served one at a time over the first connection
Next ==
    \/ InitFirestoreOK
    \/ InitFirestoreFail
    \/ Listen
    \/ ListenFail
    \/ Accept(1)
    \/ EnterAddUser(1, Requests)
    \/ EnterGetUser(1, Requests)
    \/ EnterListUsers(1, Requests)
    \/ ServeHome(1, Requests)
    \/ StoreAdd(1)
    \/ StoreGet(1)
    \/ StoreNext(1)
    \/ Resume(1)

Spec == Init /\ [][Next]_vars

\* the concurrent workload: adds and scans, up to MaxConns requests in flight
NextConc ==
    \/ InitFirestoreOK
    \/ InitFirestoreFail
    \/ Listen
    \/ ListenFail
    \/ \E c \in Conns : Accept(c)
    \/ \E c \in Conns : EnterAddUser(c, ConcRequests)
    \/ \E c \in Conns : EnterListUsers(c, ConcRequests)
    \/ \E c \in Conns : StoreAdd(c)
    \/ \E c \in Conns : StoreNext(c)
    \/ \E c \in Conns : Resume(c)

SpecConc == Init /\ [][NextConc]_vars

(* ------------------------------ properties ---------------------------- *)
\* a syntactically valid JSON document that is a {name, email} object
WellFormed(body) ==
    /\ body.form = "object"
    /\ body.rest = "none"
    /\ body.name.kind = "str"
    /\ body.email.kind = "str"

\* a body that is not one JSON document
Malformed(body) ==
    \/ body.form \in {"broken", "empty"}
    \/ body.rest = "garbage"

\* the request body read as a JSON object
PayloadObject(body) == [name |-> body.name.val, email |-> body.email.val]
\* ... and as the document the store is to hold for it
PayloadDoc(body) == [Name |-> body.name.val, Email |-> body.email.val]

\* connection c holds the response to a request for path p with method m
Answered(c, p, m) ==
    /\ h[c].pc = "idle"
    /\ h[c].out.kind # "none"
    /\ h[c].req.path = p
    /\ h[c].req.method = m

\* a step in which the goroutine of c writes its response (h'[c].out to
\* h'[c].req)
Answers(c) == h[c].pc # "idle" /\ h'[c].pc = "idle"
\* a step in which the store call of c returns
Returns(c) == h[c].pc = "waiting" /\ h'[c].pc = "ready"
LastRet(rets) == rets[Len(rets)]

\* C1: for a POST /addUser with a well-formed {name, email} payload, a store
\* create that succeeds adds exactly the input record under a fresh non-empty
\* id to the collection, and the response then written is 200 with that id
\* and a user equal to the payload, the record being stored under the id.
C1_AddSucceeds ==
    [][\A c \in Conns :
        (/\ h[c].req.path = "/addUser"
         /\ h[c].req.method = "POST"
         /\ WellFormed(h[c].req.body))
        => /\ (Returns(c) /\ ~LastRet(h'[c].rets).err)
                => LET id == LastRet(h'[c].rets).id IN
                   /\ id # ""
                   /\ id \notin DOMAIN store
                   /\ DOMAIN store' = DOMAIN store \cup {id}
                   /\ \A i \in DOMAIN store : store'[i] = store[i]
                   /\ store'[id] = PayloadDoc(h[c].req.body)
           /\ (Answers(c) /\ h[c].pc = "ready" /\ ~LastRet(h[c].rets).err)
                => /\ h'[c].out.status = 200
                   /\ h'[c].out.kind = "object"
                   /\ h'[c].out.id = LastRet(h[c].rets).id
                   /\ h'[c].out.id # ""
                   /\ h'[c].out.user = PayloadObject(h[c].req.body)
                   /\ h'[c].out.id \in DOMAIN store'
                   /\ store'[h'[c].out.id] = PayloadDoc(h[c].req.body)
                   /\ store' = store
    ]_vars

\* a second well-formed add has succeeded and its record is stored
C1_Witness ==
    \E c \in Conns :
        /\ Answered(c, "/addUser", "POST")
        /\ WellFormed(h[c].req.body)
        /\ h[c].out.status = 200
        /\ Cardinality(DOMAIN store) = 2
        /\ h[c].out.id \in DOMAIN store
        /\ store[h[c].out.id].Name = h[c].req.body.name.val

\* connection c holds the response to GET /getUser?id=<an id a successful
\* add returned before>
GetOfAdded(c) ==
    /\ Answered(c, "/getUser", "GET")
    /\ h[c].req.query.has
    /\ h[c].req.query.id \in DOMAIN added

\* C2 as stated: GET /getUser?id=<id of an earlier successful add> answers
\* 200 with that id and the user added under it.
C2_RoundTripAlways200 ==
    \A c \in Conns :
        GetOfAdded(c) =>
            /\ h[c].out.status = 200
            /\ h[c].out.id = h[c].req.query.id
            /\ h[c].out.user = added[h[c].req.query.id]

\* C2 amended: GET /getUser?id=<id of an earlier successful add> answers 200
\* with that id and the user added under it when the store lookup succeeds,
\* and 404 with no user when the store lookup fails.
C2_RoundTrip ==
    \A c \in Conns :
        GetOfAdded(c) =>
            /\ h[c].out.calls = <<"Get">>
            /\ IF h[c].out.storeErr
               THEN h[c].out.status = 404 /\ h[c].out.kind = "text"
               ELSE /\ h[c].out.status = 200
                    /\ h[c].out.kind = "object"
                    /\ h[c].out.id = h[c].req.query.id
                    /\ h[c].out.user = added[h[c].req.query.id]

\* the first of two added records is read back
C2_Witness ==
    \E c \in Conns :
        /\ GetOfAdded(c)
        /\ h[c].out.status = 200
        /\ Cardinality(DOMAIN added) = 2
        /\ h[c].out.user = added[h[c].req.query.id]
        /\ h[c].out.user # ZeroUser

\* the {id, user} entry of listUsers for the record added under id
Entry(id) == [id |-> id, user |-> added[id]]

\* C3: GET /listUsers on an empty collection answers []; after N successful
\* adds it answers an array of at least N entries holding an {id, user}
\* entry for every added record.
C3_ListComplete ==
    \A c \in Conns :
        Answered(c, "/listUsers", "GET") =>
            /\ h[c].out.kind = "array"
            /\ DOMAIN store = {} => h[c].out.list = <<>>
            /\ Len(h[c].out.list) >= Cardinality(DOMAIN added)
            /\ \A id \in DOMAIN added :
                  \E i \in 1..Len(h[c].out.list) : h[c].out.list[i] = Entry(id)

\* the requests whose method the handler of their path rejects
WrongMethod(req) ==
    \/ req.path = "/addUser" /\ req.method # "POST"
    \/ req.path \in {"/getUser", "/listUsers"} /\ req.method # "GET"

\* C4: a non-POST request to /addUser and a non-GET request to /getUser or
\* /listUsers is answered 405 in the step that reads it, without any store
\* call, and leaves the collection unchanged, whatever its body and query
\* are (so a missing id or a malformed body does not turn the answer into
\* 400).
C4_MethodFirst ==
    [][\A c \in Conns :
        /\ (h[c].pc = "running" /\ h'[c].pc # "running" /\ WrongMethod(h'[c].req))
            => (/\ Answers(c)
                /\ h'[c].out.status = 405
                /\ h'[c].out.kind = "text"
                /\ h'[c].out.calls = <<>>
                /\ store' = store)
        /\ WrongMethod(h'[c].req) => h'[c].pc \notin {"waiting", "ready"}
    ]_vars

\* a non-GET /getUser without an id was answered 405 on a non-empty collection
C4_Witness ==
    \E c \in Conns :
        /\ h[c].pc = "idle"
        /\ h[c].req.path = "/getUser"
        /\ h[c].req.method # "GET"
        /\ ~h[c].req.query.has
        /\ h[c].out.status = 405
        /\ DOMAIN store # {}

\* C5: a GET /getUser with a non-empty id whose store lookup fails is
\* answered 404 "User not found", whether a record is stored under the id or
\* not: the response does not depend on the id.
C5_LookupFailureIs404 ==
    \A c \in Conns :
        (/\ Answered(c, "/getUser", "GET")
         /\ QueryGet(h[c].req.query) # ""
         /\ h[c].out.storeErr)
        => (/\ h[c].out.status = 404
            /\ h[c].out.kind = "text"
            /\ h[c].out.text = "User not found"
            /\ h[c].out.id = ""
            /\ h[c].out.user = ZeroUser
            /\ h[c].out.calls = <<"Get">>)

\* the lookup of a stored record failed and was answered 404
C5_Witness ==
    \E c \in Conns :
        /\ Answered(c, "/getUser", "GET")
        /\ h[c].req.query.id \in DOMAIN store
        /\ h[c].out.storeErr
        /\ h[c].out.status = 404

\* C6: a GET /getUser whose id parameter is absent or empty is answered 400
\* in the step that reads it, without a store call, whatever the collection
\* holds.
C6_MissingId ==
    [][\A c \in Conns :
        (/\ h[c].pc = "running" /\ h'[c].pc # "running"
         /\ h'[c].req.path = "/getUser"
         /\ h'[c].req.method = "GET"
         /\ (~h'[c].req.query.has \/ h'[c].req.query.id = ""))
        => (/\ Answers(c)
            /\ h'[c].out.status = 400
            /\ h'[c].out.kind = "text"
            /\ h'[c].out.calls = <<>>
            /\ store' = store)
    ]_vars

\* an id parameter that is present and empty was answered 400 on a non-empty
\* collection
C6_Witness ==
    \E c \in Conns :
        /\ Answered(c, "/getUser", "GET")
        /\ h[c].req.query.has
        /\ h[c].req.query.id = ""
        /\ h[c].out.status = 400
        /\ DOMAIN store # {}

\* C7: every failed POST /addUser leaves the collection unchanged: a
\* malformed JSON body is answered 400 without a store create; a failing
\* store create is answered 500 after exactly one create, with no id and no
\* user in the response.
C7_FailedAddTerminal ==
    [][\A c \in Conns :
        (h'[c].req.path = "/addUser" /\ h'[c].req.method = "POST")
        => /\ (h[c].pc = "running" /\ h'[c].pc # "running" /\ Malformed(h'[c].req.body))
                => (/\ Answers(c)
                    /\ h'[c].out.status = 400
                    /\ h'[c].out.calls = <<>>
                    /\ store' = store)
           /\ (Returns(c) /\ LastRet(h'[c].rets).err) => store' = store
           /\ (Answers(c) /\ h'[c].out.storeErr)
                => (/\ h'[c].out.status = 500
                    /\ h'[c].out.calls = <<"Add">>
                    /\ h'[c].out.kind = "text"
                    /\ store' = store)
    ]_vars

\* What holds of the failed adds as the code decides them: a body Decode
\* rejects is answered 400 without a store create, a failing create is
\* answered 500 after one create, and neither changes the collection.
FailedAddWhenDecodeFails ==
    [][\A c \in Conns :
        (h'[c].req.path = "/addUser" /\ h'[c].req.method = "POST")
        => /\ (h[c].pc = "running" /\ h'[c].pc # "running" /\ Decode(h'[c].req.body).err)
                => (/\ Answers(c)
                    /\ h'[c].out.status = 400
                    /\ h'[c].out.calls = <<>>
                    /\ store' = store)
           /\ (Returns(c) /\ LastRet(h'[c].rets).err) => store' = store
           /\ (Answers(c) /\ h'[c].out.storeErr)
                => (/\ h'[c].out.status = 500
                    /\ h'[c].out.calls = <<"Add">>
                    /\ h'[c].out.kind = "text"
                    /\ store' = store)
    ]_vars

\* C8: the collection only grows.  A stored record stays stored, unchanged,
\* under its id; the collection changes only in the store create of a POST
\* /addUser that returns success (which the handler answers 200); no step of
\* a request for /, /getUser or /listUsers, and no response, changes it.
C8_OnlyGrows ==
    [][/\ \A id \in DOMAIN store : id \in DOMAIN store' /\ store'[id] = store[id]
       /\ store' # store
            => \E c \in Conns :
                /\ Returns(c)
                /\ h[c].req.path = "/addUser"
                /\ h[c].req.method = "POST"
                /\ ~LastRet(h'[c].rets).err
                /\ Handler(h'[c].req, h'[c].rets).resp.status = 200
    ]_vars

\* two records are stored and a scan answered after them holds both
C8_Witness ==
    \E c \in Conns :
        /\ Cardinality(DOMAIN store) = 2
        /\ Answered(c, "/listUsers", "GET")
        /\ Len(h[c].out.list) = 2

\* the collection of the first k documents of st in scan order
FirstDocs(st, k) == [i \in {Documents(st)[j] : j \in 1..k} |-> st[i]]
\* what the client sees of a response
Visible(out) == [status |-> out.status, ctype |-> out.ctype, kind |-> out.kind,
                 text |-> out.text, id |-> out.id, user |-> out.user, list |-> out.list]
\* the results of a complete scan of the collection st
CompleteScan(st) ==
    [i \in 1..(Len(Documents(st)) + 1) |->
        IF i > Len(Documents(st)) THEN Ret("Next", TRUE, TRUE, "", NoDoc)
        ELSE Ret("Next", FALSE, FALSE, Documents(st)[i], st[Documents(st)[i]])]

\* C9: GET /listUsers is always answered 200 with an array.  When the scan
\* fails after k records (k Next calls returned a document, then one
\* returned an error) the array holds exactly those k records in scan order,
\* and the client sees the response a complete scan of a collection of those
\* k records gets.
C9_ListSwallowsErrors ==
    \A c \in Conns :
        Answered(c, "/listUsers", "GET") =>
            LET k == Len(h[c].out.calls) - 2
                docs == Documents(store) IN
            /\ h[c].out.status = 200
            /\ h[c].out.kind = "array"
            /\ k \in 0..Len(docs)
            /\ ~h[c].out.storeErr => k = Len(docs)
            /\ h[c].out.list = [i \in 1..k |-> [id |-> docs[i], user |-> added[docs[i]]]]
            /\ Visible(h[c].out) =
                 Visible(listUsersHandler(h[c].req, CompleteScan(FirstDocs(store, k))).resp)

\* the scan of two records failed after the first
C9_Witness ==
    \E c \in Conns :
        /\ Answered(c, "/listUsers", "GET")
        /\ h[c].out.storeErr
        /\ Len(Documents(store)) = 2
        /\ Len(h[c].out.list) = 1
        /\ h[c].out.status = 200

\* the id a successful store create returned to the request connection c
\* serves or served last, "" if there is none
AddId(c) ==
    IF h[c].pc = "ready" /\ h[c].rets[1].op = "Add" /\ ~h[c].rets[1].err
    THEN h[c].rets[1].id
    ELSE IF h[c].pc = "idle" /\ h[c].req.path = "/addUser" /\ h[c].out.status = 200
    THEN h[c].out.id
    ELSE ""

\* no goroutine has been started and no response written
NeverServed == \A c \in Conns : h[c] = Fresh("idle")

StartupOrder ==
    /\ (phase \in {"init", "serving"} \/ ~NeverServed) => client = "ready"
    /\ (phase = "dead" /\ client = "nil") => NeverServed
    /\ \A c \in Conns, d \in Conns :
        (c # d /\ AddId(c) # "" /\ AddId(d) # "")
            => (/\ AddId(c) # AddId(d)
                /\ AddId(c) \in DOMAIN store
                /\ AddId(d) \in DOMAIN store)

\* C10: nothing is served before initFirestore has set the client, and a
\* failed initFirestore ends the process before it listens; once set, the
\* client is not assigned again, and every goroutine runs with it set.  The
\* successful adds of requests in flight at the same time get distinct ids,
\* each store create adds exactly one new record, and the records are in the
\* collection.
C10_StartupAndSharedClient ==
    [][/\ StartupOrder'
       /\ client = "ready" => client' = "ready"
       /\ (phase = "boot" /\ phase' # "boot" /\ client' # "ready") => phase' = "dead"
       /\ \A c \in Conns :
            (Returns(c) /\ h[c].req.path = "/addUser" /\ ~LastRet(h'[c].rets).err)
                => (/\ LastRet(h'[c].rets).id \notin DOMAIN store
                    /\ Cardinality(DOMAIN store') = Cardinality(DOMAIN store) + 1)
    ]_vars

\* the store creates of two requests in flight together have both succeeded,
\* neither is answered yet
C10_Witness ==
    \E c \in Conns, d \in Conns :
        /\ c # d
        /\ h[c].pc = "ready"
        /\ h[d].pc = "ready"
        /\ AddId(c) # ""
        /\ AddId(d) # ""
        /\ AddId(c) # AddId(d)
        /\ client = "ready"
        /\ DOMAIN added = {}

====
